---- MODULE Spec2Model ----
(***************************************************************************)
(* Task lifecycle of the video generation service                          *)
(* (src/video_generator/services.py): the Durable Log file                 *)
(* video_gen_queue.jsonl, the in-memory queue _video_gen_queue, the        *)
(* requests calling create_video, the worker thread _video_gen_worker, and *)
(* process crash / restart.                                                *)
(***************************************************************************)
EXTENDS Integers, Sequences, FiniteSets, TLC

\* ---------------------------------------------------------------- bounds
MaxSubmits == 2     \* create_video calls in a behaviour (each is its own request)
MaxCrashes == 1     \* process crashes in a behaviour
MaxMerges == 1      \* merge requests in a behaviour (each runs in its own thread)
MaxSources == 2     \* source locators of a merge request
MaxLen == 2         \* characters of a caller-supplied string

\* ------------------------------------------------------ program constants
\* A second worker thread: what the module would do if it started two.
NumWorkersTwo == 1 + 1
\* services.py:591-592 starts exactly one thread running _video_gen_worker.
NumWorkers == 1

Workers == 1..NumWorkers
Merges == 1..MaxMerges
\* merge_videos starts a thread per call: the threads that can exist, two at least.
MergeThreads == 1..(MaxMerges + 1)
Requests == 1..MaxSubmits
\* Task ids are opaque strings: at most one distinct id per request is needed.
TaskIds == 1..MaxSubmits

\* A line of the log file is the record of a task id, or unparseable text.
\* Torn: the unterminated prefix of a record left by an interrupted write
\* (it can only be the last line).  Junk: a terminated line json.loads rejects.
Torn == 0
Junk == -1

\* The item that is not a task: `if item is None` (services.py:567).
None == -2

VARIABLES
    up,         \* the process is running
    useRemote,  \* settings.USE_REMOTE_SSH
    notifyUrl,  \* settings.VIDEO_CREATE_NOTIFY_URL is non-empty
    file,       \* the Durable Log file, line by line
    queue,      \* _video_gen_queue
    lock,       \* _persist_lock: <<"free",0>>, <<"request",r>> or <<"worker",w>>
    ssh,        \* video_generator_service.ssh_client: "none" (None, or a client
                \*   never connected), "session" (transport active) or "stale"
    pc,         \* pc[w]: position of worker thread w
    cur,        \* cur[w]: task_id of the item worker w dequeued
    outcome,    \* outcome[w]: how the processing of cur[w] went so far
    url,        \* url[w]: oss_url is non-empty
    buf,        \* buf[w]: `lines` kept by _persist_remove for the rewrite
    issued,     \* issued[w]: commands handed to the backend while processing cur[w]
    wrote,      \* wrote[w]: _write_failed_log was called while processing cur[w]
    noted,      \* noted[w]: the posts call_notify made while processing cur[w]
    mp4,        \* mp4[w]: {task_id}.mp4 in the result directory after exit 0:
                \*   "none" (not run), "nodir" (no result directory configured),
                \*   "absent" or "present"
    uploads,    \* uploads[w]: client.upload_file calls made while processing cur[w]
    rpc,        \* rpc[r]: position of request r inside create_video, or its result
    rid,        \* rid[r]: task_id request r passed
    \* ---- history
    removed,    \* task ids whose _persist_remove has returned
    attempted,  \* task ids dequeued by the worker since the process started
    recovered,  \* what _persist_load returned when the process started
    interrupted,\* task ids that were being processed when the process last crashed
    crashes,    \* number of crashes so far
    \* ---- merge pipeline (merge_service.py)
    merge,      \* merge[m]: the thread of merge request m, see MergeIdle
    \* ---- Command Builder (_build_command_safe)
    kwargs,     \* the fields of a validated create request, see NoTask
    cmd         \* the command text built from them, character by character

wlocals == <<cur, outcome, url, buf>>
wflags == <<issued, wrote, noted, mp4, uploads>>
wvars == <<pc, wlocals, wflags>>
rvars == <<rpc, rid>>
cfgvars == <<useRemote, notifyUrl>>
hist == <<removed, attempted, recovered, interrupted, crashes>>
gvars == <<up, cfgvars, file, queue, lock, ssh, wvars, rvars, hist>>
ext == <<kwargs, cmd>>
vars == <<gvars, merge, ext>>

\* ------------------------------------------------------------ Durable Log
Free == <<"free", 0>>

\* json.loads(line) succeeds and the object has a task_id (services.py:56-57, 77-78)
IsRecord(l) == l \in TaskIds

Last(s) == s[Len(s)]
Front(s) == SubSeq(s, 1, Len(s) - 1)

\* open(path, 'a') ... f.write(json.dumps(...) + '\n'): written after an
\* unterminated fragment, the record and the fragment make one unparseable line.
AppendLine(f, t) ==
    IF Len(f) > 0 /\ Last(f) = Torn THEN Front(f) \o <<Junk>> ELSE Append(f, t)

\* An append interrupted after part of the record reached the file.
TornAppend(f) ==
    IF Len(f) > 0 /\ Last(f) = Torn THEN f ELSE Append(f, Torn)

\* A filter that keeps the record it should drop.
KeepLinesAll(f, t) == SelectSeq(f, LAMBDA l : IsRecord(l))
\* The loop of _persist_remove: keep the parseable lines of other task ids.
KeepLines(f, t) == SelectSeq(f, LAMBDA l : IsRecord(l) /\ l # t)

\* A loader that returns the records in reverse order.
RECURSIVE persist_load_reversed(_)
persist_load_reversed(f) ==
    IF f = <<>> THEN <<>>
    ELSE persist_load_reversed(Tail(f))
         \o (IF IsRecord(Head(f)) THEN <<Head(f)>> ELSE <<>>)
\* A loader that recovers nothing.
persist_load_none(f) == <<>>
\* _persist_load: the task ids of the parseable lines, in file order.
persist_load(f) == SelectSeq(f, LAMBDA l : IsRecord(l))

\* What an interrupted rewrite of `lines` can leave in the truncated file:
\* a prefix of the lines, the next line possibly cut.
PartialWrites(lines) ==
    {SubSeq(lines, 1, n) : n \in 0..Len(lines)}
    \cup {Append(SubSeq(lines, 1, n), Torn) : n \in 0..(Len(lines) - 1)}

\* --------------------------------------------------------- merge request
\* merge_service.py:142 max_retries = 3
max_retries == 3
\* merge_service.py:156 wait_sec = 5 * (attempt + 1)
wait_unit == 5

\* The thread of a merge request before merge_videos has started it.
MergeIdle ==
    [pc |-> "idle",         \* position inside _merge_videos_sync
     n |-> 0,               \* len(video_urls)
     notify_url |-> FALSE,  \* MERGE_NOTIFY_URL is non-empty
     tmpdir |-> FALSE,      \* the TemporaryDirectory exists
     downloads |-> 0,       \* _download_file calls
     local_files |-> <<>>,  \* local_files: the number of the source each file came from
     repairs |-> 0,         \* repair runs of ffmpeg
     fixed_files |-> <<>>,  \* fixed_files: the number of the source of each repaired clip
     combined |-> "none",   \* how out_path was produced: "copy", "concat"; "concat_fail"
     manifest |-> <<>>,     \* the lines of concat.txt: the clip each one names
     output |-> <<>>,       \* the clips out_path is made of, in order
     creds |-> "unread",    \* the storage credentials: "absent" or "present"
     attempts |-> 0,        \* client.upload_file calls
     upload_errs |-> 0,     \* client.upload_file calls that raised
     slept |-> <<>>,        \* the time.sleep calls, in seconds
     oss_url |-> FALSE,     \* oss_url is non-empty
     url_logged |-> 0,      \* lines appended to OSS_URL_LOG
     posts |-> <<>>]        \* the posts of call_notify

\* -------------------------------------------------------- Command Builder
\* Text is a sequence of characters.  The characters a caller can send that
\* matter to the shell: the single quote, the backslash, and ';' for the
\* metacharacters.  The fixed parts of the command hold none of them outside
\* the places written out below; each fixed part is one element.
Chars == {"'", "\\", ";"}

\* The non-blank strings of a CharField, up to MaxLen characters.
Strings == UNION {[1..n -> Chars] : n \in 1..MaxLen}

\* No request received yet.
NoTask == [task_id |-> <<>>, task_type |-> "", prompt |-> <<>>,
           ref_imgs |-> <<>>, input_video |-> <<>>]

\* s.replace(old, new) for a one-character old
RECURSIVE str_replace(_, _, _)
str_replace(s, old, new) ==
    IF s = <<>> THEN <<>>
    ELSE (IF Head(s) = old THEN new ELSE <<Head(s)>>) \o str_replace(Tail(s), old, new)

\* _escape_shell_arg: s.replace("\\", "\\\\").replace("'", "'\\''")
escape_shell_arg(s) ==
    str_replace(str_replace(s, "\\", <<"\\", "\\">>), "'", <<"'", "\\", "'", "'">>)

\* _build_command_safe(task_id, **kwargs): env_setup, the python call and its
\* arguments joined by spaces, then notify_cmd.  model_id comes from
\* settings.REMOTE_MODEL_ID (the view passes none) and holds no quote.
build_command_safe(k) ==
    <<"env_setup python generate_video.py ">>
    \o <<"--model_id ", "'", "REMOTE_MODEL_ID", "'">>
    \o <<" --task_type ", k.task_type>>
    \o <<" --prompt ", "'">> \o escape_shell_arg(k.prompt) \o <<"'">>
    \o <<" --duration 5">>
    \o <<" --output_file ", "'">> \o k.task_id \o <<".mp4", "'">>
    \o (IF k.task_type = "reference_to_video" /\ k.ref_imgs # <<>>
        THEN <<" --ref_imgs ", "'">> \o escape_shell_arg(k.ref_imgs) \o <<"'">>
        ELSE <<>>)
    \o (IF k.task_type = "single_shot_extension" /\ k.input_video # <<>>
        THEN <<" --input_video ", "'">> \o escape_shell_arg(k.input_video) \o <<"'">>
        ELSE <<>>)
    \o <<" --offload">>
    \o <<" && echo ", "'", "[NOTIFY] video_create_done taskId=">> \o k.task_id
    \o <<"'", " >> NOTIFY_LOG">>

\* CreateVideoView.post: a request that passed CreateVideoSerializer; the
\* image list or the video locator is present according to task_type.
post(tid, tt, pr, loc) ==
    /\ kwargs = NoTask
    /\ kwargs' = [task_id |-> tid, task_type |-> tt, prompt |-> pr,
                  ref_imgs |-> IF tt = "reference_to_video" THEN loc ELSE <<>>,
                  input_video |-> IF tt = "single_shot_extension" THEN loc ELSE <<>>]
    /\ UNCHANGED <<cmd, gvars, merge>>

\* cmd = video_generator_service._build_command_safe(task_id, **kwargs)
build_command(w) ==
    /\ kwargs # NoTask /\ cmd = <<>>
    /\ cmd' = build_command_safe(kwargs)
    /\ UNCHANGED <<kwargs, gvars, merge>>

\* ------------------------------------------------------------------ Init
Init ==
    /\ up = TRUE
    /\ useRemote \in BOOLEAN
    /\ notifyUrl \in BOOLEAN
    /\ file = <<>>
    /\ queue = <<>>
    /\ lock = Free
    /\ ssh = "none"
    /\ pc = [w \in Workers |-> "get"]
    /\ cur = [w \in Workers |-> 0]
    /\ outcome = [w \in Workers |-> "none"]
    /\ url = [w \in Workers |-> FALSE]
    /\ buf = [w \in Workers |-> <<>>]
    /\ issued = [w \in Workers |-> 0]
    /\ wrote = [w \in Workers |-> FALSE]
    /\ noted = [w \in Workers |-> <<>>]
    /\ mp4 = [w \in Workers |-> "none"]
    /\ uploads = [w \in Workers |-> 0]
    /\ rpc = [r \in Requests |-> "idle"]
    /\ rid = [r \in Requests |-> 0]
    /\ removed = {}
    /\ attempted = <<>>
    /\ recovered = <<>>
    /\ interrupted = {}
    /\ crashes = 0
    /\ merge = [m \in MergeThreads |-> MergeIdle]
    /\ kwargs = NoTask
    /\ cmd = <<>>

\* ------------------------------------------------ create_video (requests)
\* Request r enters create_video(task_id, **kwargs).  Requests and ids are
\* interchangeable: requests arrive in the order of their numbers, and an id
\* not used before is the smallest such id.
create_video(r, t) ==
    /\ up /\ rpc[r] = "idle"
    /\ r > 1 => rpc[r - 1] # "idle"
    /\ t > 1 => \E q \in Requests : rpc[q] # "idle" /\ rid[q] = t - 1
    /\ rpc' = [rpc EXCEPT ![r] = "acquire"]
    /\ rid' = [rid EXCEPT ![r] = t]
    /\ UNCHANGED <<ext, merge, up, cfgvars, file, queue, lock, ssh, wvars, hist>>

\* A submission that waits until the worker is idle before it persists.
persist_append_acquire_idle(r) ==
    /\ up /\ rpc[r] = "acquire" /\ lock = Free
    /\ \A w \in Workers : pc[w] = "get"
    /\ lock' = <<"request", r>>
    /\ rpc' = [rpc EXCEPT ![r] = "write"]
    /\ UNCHANGED <<ext, merge, up, cfgvars, file, queue, ssh, wvars, rid, hist>>

\* An append that enters its file section without taking _persist_lock.
persist_append_acquire_nolock(r) ==
    /\ up /\ rpc[r] = "acquire"
    /\ rpc' = [rpc EXCEPT ![r] = "write"]
    /\ UNCHANGED <<ext, merge, up, cfgvars, file, queue, lock, ssh, wvars, rid, hist>>

\* _persist_append: with _persist_lock
persist_append_acquire(r) ==
    /\ up /\ rpc[r] = "acquire" /\ lock = Free
    /\ lock' = <<"request", r>>
    /\ rpc' = [rpc EXCEPT ![r] = "write"]
    /\ UNCHANGED <<ext, merge, up, cfgvars, file, queue, ssh, wvars, rid, hist>>

\* _persist_append: the record is written and the lock released
persist_append_write(r) ==
    /\ up /\ rpc[r] = "write"
    /\ file' = AppendLine(file, rid[r])
    /\ lock' = Free
    /\ rpc' = [rpc EXCEPT ![r] = "put"]
    /\ UNCHANGED <<ext, merge, up, cfgvars, queue, ssh, wvars, rid, hist>>

\* A create_video that puts the task on the queue before it persists it: the
\* failure of the append is reported with the task already queued.
persist_append_fail_queued(r) ==
    /\ up /\ rpc[r] = "write"
    /\ lock' = Free
    /\ queue' = Append(queue, rid[r])
    /\ rpc' = [rpc EXCEPT ![r] = "failed"]
    /\ UNCHANGED <<ext, merge, up, cfgvars, file, ssh, wvars, rid, hist>>

\* _persist_append raises (open fails): create_video returns success False
persist_append_fail(r) ==
    /\ up /\ rpc[r] = "write"
    /\ lock' = Free
    /\ rpc' = [rpc EXCEPT ![r] = "failed"]
    /\ UNCHANGED <<ext, merge, up, cfgvars, file, queue, ssh, wvars, rid, hist>>

\* _video_gen_queue.put((task_id, kw)); return success True
queue_put(r) ==
    /\ up /\ rpc[r] = "put"
    /\ queue' = Append(queue, rid[r])
    /\ rpc' = [rpc EXCEPT ![r] = "ok"]
    /\ UNCHANGED <<ext, merge, up, cfgvars, file, lock, ssh, wvars, rid, hist>>

\* create_video calls made with task id t, and those that returned success
Subs(t) == {r \in Requests : rpc[r] # "idle" /\ rid[r] = t}
Acked(t) == {r \in Requests : rpc[r] = "ok" /\ rid[r] = t}

\* ------------------------------------------- _video_gen_worker (worker w)
Goto(w, p) == pc' = [pc EXCEPT ![w] = p]
Classify(w, o) == outcome' = [outcome EXCEPT ![w] = o]

\* The pcs between the dequeue and the finally clause: the task is being processed.
ProcessingPcs == {"connect", "issue", "exec", "check", "fetch", "upload",
                  "faillog", "notify", "except"}
\* The pcs inside _run_via_ssh_sync / _run_local_sync.
RunPcs == {"connect", "issue", "exec", "check", "fetch", "upload", "faillog", "notify"}
\* The pcs inside _persist_remove.
RemovePcs == {"remove", "rm_read", "rm_write"}

\* item = _video_gen_queue.get(); task_id, kwargs = item; the command is built
\* (_build_command_safe is total on the strings of a validated request) and
\* _run_via_ssh_sync or _run_local_sync is entered by _use_remote_ssh().
worker_get(w) ==
    /\ up /\ pc[w] = "get" /\ queue # <<>> /\ Head(queue) # None
    /\ cur' = [cur EXCEPT ![w] = Head(queue)]
    /\ queue' = Tail(queue)
    /\ attempted' = Append(attempted, Head(queue))
    /\ Goto(w, IF useRemote THEN "connect" ELSE "issue")
    /\ Classify(w, "none")
    /\ url' = [url EXCEPT ![w] = FALSE]
    /\ issued' = [issued EXCEPT ![w] = 0]
    /\ wrote' = [wrote EXCEPT ![w] = FALSE]
    /\ noted' = [noted EXCEPT ![w] = <<>>]
    /\ mp4' = [mp4 EXCEPT ![w] = "none"]
    /\ uploads' = [uploads EXCEPT ![w] = 0]
    /\ UNCHANGED <<ext, merge, up, cfgvars, file, lock, ssh, buf, rvars, removed, recovered,
                   interrupted, crashes>>

\* The transport of the session stops being active (the peer or the network
\* went away): transport.is_active() is False from now on.  Only the health
\* check of _get_ssh_client reads it, so the loss is taken when a call is
\* about to make that check, whenever it happened.
session_drop ==
    /\ up /\ ssh = "session"
    /\ \E w \in Workers : pc[w] = "connect"
    /\ ssh' = "stale"
    /\ UNCHANGED <<ext, merge, up, cfgvars, file, queue, lock, wvars, rvars, hist>>

\* A client getter that reuses the session object without the health check.
get_ssh_client_cached(w) ==
    /\ up /\ pc[w] = "connect"
    /\ \/ /\ ssh \in {"session", "stale"}
          /\ Goto(w, "issue")
          /\ UNCHANGED <<ssh, outcome>>
       \/ /\ ssh = "none"
          /\ ssh' = "session"
          /\ Goto(w, "issue")
          /\ UNCHANGED outcome
       \/ /\ ssh = "none"
          /\ ssh' = "none"
          /\ Goto(w, "except")
          /\ Classify(w, "conn_error")
    /\ UNCHANGED <<ext, merge, up, cfgvars, file, queue, lock, cur, url, buf, wflags, rvars, hist>>

\* Something puts the sentinel on the queue (no code of this module does; the
\* queue is a module global).  One sentinel is enough for the one worker.
put_sentinel ==
    /\ up
    /\ \A i \in 1..Len(queue) : queue[i] # None
    /\ \A w \in Workers : pc[w] # "stopped"
    /\ queue' = Append(queue, None)
    /\ UNCHANGED <<ext, merge, up, cfgvars, file, lock, ssh, wvars, rvars, hist>>

\* A worker that, told to stop, discards the waiting tasks and their records.
worker_stop_purge(w) ==
    /\ up /\ pc[w] = "get" /\ queue # <<>> /\ Head(queue) = None
    /\ queue' = <<>>
    /\ file' = <<>>
    /\ Goto(w, "stopped")
    /\ UNCHANGED <<ext, merge, up, cfgvars, lock, ssh, wlocals, wflags, rvars, hist>>

\* item = _video_gen_queue.get(); if item is None: task_done(); break
worker_stop(w) ==
    /\ up /\ pc[w] = "get" /\ queue # <<>> /\ Head(queue) = None
    /\ queue' = Tail(queue)
    /\ Goto(w, "stopped")
    /\ UNCHANGED <<ext, merge, up, cfgvars, file, lock, ssh, wlocals, wflags, rvars, hist>>

\* client = self._get_ssh_client(): a session whose transport is_active() is
\* reused; otherwise _connect() closes the old client and connects a new one,
\* or raises and leaves a client that was never connected.
get_ssh_client(w) ==
    /\ up /\ pc[w] = "connect"
    /\ \/ /\ ssh = "session"            \* _is_connection_alive() is True
          /\ Goto(w, "issue")
          /\ UNCHANGED <<ssh, outcome>>
       \/ /\ ssh # "session"            \* absent or inactive: connect() succeeds
          /\ ssh' = "session"
          /\ Goto(w, "issue")
          /\ UNCHANGED outcome
       \/ /\ ssh # "session"            \* absent or inactive: connect() raises
          /\ ssh' = "none"
          /\ Goto(w, "except")
          /\ Classify(w, "conn_error")
    /\ UNCHANGED <<ext, merge, up, cfgvars, file, queue, lock, cur, url, buf, wflags, rvars, hist>>

\* client.exec_command(sync_cmd, timeout=7200) / open(log_file, 'w'); subprocess.run(...)
issue_command(w) ==
    /\ up /\ pc[w] = "issue"
    /\ \/ /\ issued' = [issued EXCEPT ![w] = @ + 1]
          /\ Goto(w, "exec")
          /\ UNCHANGED outcome
       \/ /\ Goto(w, "except")          \* no channel / the log file cannot be opened
          /\ Classify(w, "exec_error")
          /\ UNCHANGED issued
    /\ UNCHANGED <<ext, merge, up, cfgvars, file, queue, lock, ssh, cur, url, buf, wrote, noted,
                   mp4, uploads, rvars, hist>>

\* What the result directory holds once the command has exited with status 0.
Artifacts == {"nodir", "absent", "present"}

\* One post of call_notify: the status and whether videoUrl is non-empty.
Post(st, u) == [status |-> st, url |-> u]

\* A worker that issues the command again after a non-zero exit.
wait_exit_retry(w) ==
    /\ up /\ pc[w] = "exec"
    /\ \/ /\ Goto(w, "check")
          /\ \E a \in Artifacts : mp4' = [mp4 EXCEPT ![w] = a]
          /\ UNCHANGED outcome
       \/ /\ Goto(w, "issue")
          /\ Classify(w, "exit_nonzero")
          /\ UNCHANGED mp4
       \/ /\ Goto(w, "except")
          /\ Classify(w, "timeout")
          /\ UNCHANGED mp4
    /\ UNCHANGED <<ext, merge, up, cfgvars, file, queue, lock, ssh, cur, url, buf, issued, wrote,
                   noted, uploads, rvars, hist>>

\* A worker whose execution call never returns when the command overruns.
wait_exit_hang(w) ==
    /\ up /\ pc[w] = "exec"
    /\ \/ /\ Goto(w, "check")
          /\ \E a \in Artifacts : mp4' = [mp4 EXCEPT ![w] = a]
          /\ UNCHANGED outcome
       \/ /\ Goto(w, "faillog")
          /\ Classify(w, "exit_nonzero")
          /\ UNCHANGED mp4
       \/ /\ Goto(w, "exec")
          /\ Classify(w, "timeout")
          /\ UNCHANGED mp4
    /\ UNCHANGED <<ext, merge, up, cfgvars, file, queue, lock, ssh, cur, url, buf, issued, wrote,
                   noted, uploads, rvars, hist>>

\* stdout.read(); recv_exit_status() / subprocess.run returns or times out
wait_exit(w) ==
    /\ up /\ pc[w] = "exec"
    /\ \/ /\ Goto(w, "check")           \* exit status 0
          /\ \E a \in Artifacts : mp4' = [mp4 EXCEPT ![w] = a]
          /\ UNCHANGED outcome
       \/ /\ Goto(w, "faillog")         \* exit status # 0
          /\ Classify(w, "exit_nonzero")
          /\ UNCHANGED mp4
       \/ /\ Goto(w, "except")          \* socket.timeout / TimeoutExpired
          /\ Classify(w, "timeout")
          /\ UNCHANGED mp4
    /\ UNCHANGED <<ext, merge, up, cfgvars, file, queue, lock, ssh, cur, url, buf, issued, wrote,
                   noted, uploads, rvars, hist>>

\* A result check that passes whatever the result directory holds.
check_mp4_exists_lenient(w) ==
    /\ up /\ pc[w] = "check"
    /\ Goto(w, "fetch")
    /\ UNCHANGED <<ext, merge, up, cfgvars, file, queue, lock, ssh, wlocals, wflags, rvars, hist>>

\* _check_mp4_exists_ssh / _check_mp4_exists_local: True when no result
\* directory is configured; otherwise whether {task_id}.mp4 is there (remote:
\* `test -f ... && echo ok`, False as well when that command raises).
check_mp4_exists(w) ==
    /\ up /\ pc[w] = "check"
    /\ \/ /\ mp4[w] \in {"nodir", "present"}
          /\ Goto(w, "fetch")
          /\ UNCHANGED outcome
       \/ /\ mp4[w] = "absent" \/ (mp4[w] = "present" /\ useRemote)
          /\ Goto(w, "faillog")
          /\ Classify(w, "missing")
    /\ UNCHANGED <<ext, merge, up, cfgvars, file, queue, lock, ssh, cur, url, buf, wflags, rvars, hist>>

\* Remote: local_path = _copy_task_mp4_from_remote(...), None when no result
\* directory is configured or scp raises; local_base.mkdir is outside its try.
\* Local: `if result_dir:` guards the upload.
fetch_artifact(w) ==
    /\ up /\ pc[w] = "fetch"
    /\ \/ /\ mp4[w] = "present"
          /\ Goto(w, "upload")
          /\ UNCHANGED outcome
       \/ /\ mp4[w] = "nodir" \/ useRemote   \* oss_url stays ""
          /\ Goto(w, "notify")
          /\ Classify(w, "fetch_fail")
       \/ /\ mp4[w] = "present" /\ useRemote  \* mkdir raises
          /\ Goto(w, "except")
          /\ Classify(w, "fetch_error")
    /\ UNCHANGED <<ext, merge, up, cfgvars, file, queue, lock, ssh, cur, url, buf, wflags, rvars, hist>>

\* An uploader that attempts the upload without credentials.
upload_video_to_cos_and_log_blind(w) ==
    /\ up /\ pc[w] = "upload"
    /\ uploads' = [uploads EXCEPT ![w] = @ + 1]
    /\ \/ /\ url' = [url EXCEPT ![w] = TRUE]
          /\ Classify(w, "success")
       \/ /\ UNCHANGED url
          /\ Classify(w, "no_creds")
    /\ Goto(w, "notify")
    /\ UNCHANGED <<ext, merge, up, cfgvars, file, queue, lock, ssh, cur, buf, issued, wrote, noted,
                   mp4, rvars, hist>>

\* oss_url = _upload_video_to_cos_and_log(...): "" without an attempt when a
\* credential is missing or the file is not there; otherwise one upload_file
\* call, then the URL is appended to the URL log when log_path is set; ""
\* when the call or the append raises.
upload_video_to_cos_and_log(w) ==
    /\ up /\ pc[w] = "upload"
    /\ \/ /\ Classify(w, "no_creds")
          /\ UNCHANGED <<url, uploads>>
       \/ /\ uploads' = [uploads EXCEPT ![w] = @ + 1]
          /\ \/ /\ url' = [url EXCEPT ![w] = TRUE]
                /\ \/ Classify(w, "success")            \* URL appended to the log
                   \/ Classify(w, "success_unlogged")   \* log_path is empty
             \/ /\ UNCHANGED url
                /\ \/ Classify(w, "upload_fail")        \* upload_file raised
                   \/ Classify(w, "log_fail")           \* the append raised
    /\ Goto(w, "notify")
    /\ UNCHANGED <<ext, merge, up, cfgvars, file, queue, lock, ssh, cur, buf, issued, wrote, noted,
                   mp4, rvars, hist>>

\* _write_failed_log: writes {task_id}_failed.log; an error of the write is
\* logged and swallowed, the caller goes on the same way in both cases
write_failed_log(w) ==
    /\ up /\ pc[w] \in {"faillog", "except"}
    /\ wrote' = [wrote EXCEPT ![w] = TRUE]
    /\ Goto(w, IF pc[w] = "faillog" THEN "notify" ELSE "remove")
    /\ UNCHANGED <<ext, merge, up, cfgvars, file, queue, lock, ssh, wlocals, issued, noted, mp4,
                   uploads, rvars, hist>>

\* A notifier that reports SUCCESS as soon as the artifact was produced,
\* whether it was uploaded or not.
call_notify_by_artifact(w) ==
    /\ up /\ pc[w] = "notify"
    /\ noted' = IF notifyUrl
                THEN [noted EXCEPT ![w] =
                        Append(@, Post(IF mp4[w] = "present" THEN "SUCCESS" ELSE "FAIL",
                                       url[w]))]
                ELSE noted
    /\ Goto(w, "remove")
    /\ UNCHANGED <<ext, merge, up, cfgvars, file, queue, lock, ssh, wlocals, issued, wrote, mp4,
                   uploads, rvars, hist>>

\* A notifier that posts again when the receiver did not answer 200.
call_notify_retry(w) ==
    /\ up /\ pc[w] = "notify"
    /\ noted' = IF notifyUrl
                THEN [noted EXCEPT ![w] =
                        Append(@, Post(IF url[w] THEN "SUCCESS" ELSE "FAIL", url[w]))]
                ELSE noted
    /\ \/ Goto(w, "remove")
       \/ notifyUrl /\ Len(noted[w]) < 2 /\ Goto(w, "notify")
    /\ UNCHANGED <<ext, merge, up, cfgvars, file, queue, lock, ssh, wlocals, issued, wrote, mp4,
                   uploads, rvars, hist>>

\* if notify_url: call_notify(notify_url, task_id, oss_url or "", status).
\* call_notify posts once; on a non-200 answer or an exception it logs and
\* returns False, and the callers drop its result.
call_notify(w) ==
    /\ up /\ pc[w] = "notify"
    /\ noted' = IF notifyUrl
                THEN [noted EXCEPT ![w] =
                        Append(@, Post(IF url[w] THEN "SUCCESS" ELSE "FAIL", url[w]))]
                ELSE noted
    /\ Goto(w, "remove")
    /\ UNCHANGED <<ext, merge, up, cfgvars, file, queue, lock, ssh, wlocals, issued, wrote, mp4,
                   uploads, rvars, hist>>

\* finally: _persist_remove(task_id): with _persist_lock
persist_remove_acquire(w) ==
    /\ up /\ pc[w] = "remove" /\ lock = Free
    /\ lock' = <<"worker", w>>
    /\ Goto(w, "rm_read")
    /\ UNCHANGED <<ext, merge, up, cfgvars, file, queue, ssh, wlocals, wflags, rvars, hist>>

\* _persist_remove: the lines are read and filtered, then open(path, 'w') empties the file
persist_remove_truncate(w) ==
    /\ up /\ pc[w] = "rm_read"
    /\ buf' = [buf EXCEPT ![w] = KeepLines(file, cur[w])]
    /\ file' = <<>>
    /\ Goto(w, "rm_write")
    /\ UNCHANGED <<ext, merge, up, cfgvars, queue, lock, ssh, cur, outcome, url, wflags, rvars, hist>>

\* _persist_remove: f.write('\n'.join(lines) ...), lock released;
\* then _video_gen_queue.task_done() and the next iteration
persist_remove_write(w) ==
    /\ up /\ pc[w] = "rm_write"
    /\ file' = buf[w]
    /\ buf' = [buf EXCEPT ![w] = <<>>]
    /\ lock' = Free
    /\ removed' = removed \cup {cur[w]}
    /\ Goto(w, "get")
    /\ UNCHANGED <<ext, merge, up, cfgvars, queue, ssh, cur, outcome, url, wflags, rvars, attempted,
                   recovered, interrupted, crashes>>

\* _persist_remove raises (the file cannot be read or opened): nothing catches an
\* exception of the finally clause, the thread ends
persist_remove_fail(w) ==
    /\ up /\ pc[w] = "rm_read"
    /\ lock' = Free
    /\ Goto(w, "dead")
    /\ UNCHANGED <<ext, merge, up, cfgvars, file, queue, ssh, wlocals, wflags, rvars, hist>>

\* ------------------------------------------------------ crash and restart
\* The process dies: memory is lost, the disk and the outside world stay.
Crash ==
    /\ up /\ crashes < MaxCrashes
    /\ up' = FALSE
    /\ crashes' = crashes + 1
    /\ \/ /\ \E r \in Requests : rpc[r] = "write"
          /\ file' \in {file, TornAppend(file)}
       \/ \E w \in Workers : pc[w] = "rm_write" /\ file' \in PartialWrites(buf[w])
       \/ /\ \A r \in Requests : rpc[r] # "write"
          /\ \A w \in Workers : pc[w] # "rm_write"
          /\ file' = file
    /\ interrupted' = {cur[w] : w \in {v \in Workers : pc[v] \in ProcessingPcs}}
    /\ queue' = <<>>
    /\ lock' = Free
    /\ ssh' = "none"
    /\ pc' = [w \in Workers |-> "down"]
    /\ cur' = [w \in Workers |-> 0]
    /\ outcome' = [w \in Workers |-> "none"]
    /\ url' = [w \in Workers |-> FALSE]
    /\ buf' = [w \in Workers |-> <<>>]
    /\ issued' = [w \in Workers |-> 0]
    /\ wrote' = [w \in Workers |-> FALSE]
    /\ noted' = [w \in Workers |-> <<>>]
    /\ mp4' = [w \in Workers |-> "none"]
    /\ uploads' = [w \in Workers |-> 0]
    /\ rpc' = [r \in Requests |->
                 IF rpc[r] \in {"acquire", "write", "put"} THEN "lost" ELSE rpc[r]]
    /\ attempted' = <<>>
    /\ UNCHANGED <<ext, merge, cfgvars, rid, removed, recovered>>

\* Module import: the queue is rebuilt from _persist_load(), then the worker starts.
Restart ==
    /\ ~up
    /\ up' = TRUE
    /\ queue' = persist_load(file)
    /\ recovered' = persist_load(file)
    /\ pc' = [w \in Workers |-> "get"]
    /\ UNCHANGED <<ext, merge, cfgvars, file, lock, ssh, wlocals, wflags, rvars, removed, attempted,
                   interrupted, crashes>>

\* ------------------------------------- merge_videos / _merge_videos_sync
Set(m, rec) == merge' = [merge EXCEPT ![m] = rec]

\* _notify(video_url, status): posts when notify_url is set
Notified(rec, st) ==
    IF rec.notify_url THEN [rec EXCEPT !.posts = Append(@, Post(st, rec.oss_url))]
    ELSE rec

\* A directory made by hand and removed only at the end of the normal path.
Leave_leaky(rec, p) == [rec EXCEPT !.pc = p, !.tmpdir = (p # "creds")]

\* Leaving the `with tempfile.TemporaryDirectory()` block at position p.
Leave(rec, p) == [rec EXCEPT !.pc = p, !.tmpdir = FALSE]

\* A merge request that is started only when no other merge is running.
merge_videos_serial(m, k, nu) ==
    /\ merge[m].pc = "idle"
    /\ m > 1 => merge[m - 1].pc # "idle"
    /\ \A o \in MergeThreads : merge[o].pc \in {"idle", "done", "dead"}
    /\ Set(m, [MergeIdle EXCEPT !.pc = "download", !.n = k, !.notify_url = nu,
                                !.tmpdir = TRUE])
    /\ UNCHANGED <<ext, gvars>>

\* merge_videos(task_id, video_urls): a thread is started and the caller gets
\* its answer; the thread reads MERGE_NOTIFY_URL and creates the temporary
\* directory.  Requests are interchangeable: they start in number order.
merge_videos(m, k, nu) ==
    /\ merge[m].pc = "idle"
    /\ m > 1 => merge[m - 1].pc # "idle"
    /\ Set(m, [MergeIdle EXCEPT !.pc = "download", !.n = k, !.notify_url = nu,
                                !.tmpdir = TRUE])
    /\ UNCHANGED <<ext, gvars>>

\* A download loop that goes on to the next source after a failed download.
download_file_skip(m) ==
    /\ merge[m].pc = "download"
    /\ LET rec == [merge[m] EXCEPT !.downloads = @ + 1] IN
       \/ Set(m, [rec EXCEPT !.local_files = Append(@, rec.downloads),
                             !.pc = IF rec.downloads = rec.n THEN "repair" ELSE "download"])
       \/ Set(m, IF rec.downloads = rec.n
                 THEN Leave(Notified(rec, "FAIL"), "done")
                 ELSE rec)
    /\ UNCHANGED <<ext, gvars>>

\* for i, url in enumerate(video_urls): _download_file(url, local); a False
\* result ends the merge: _notify("", "FAIL"); return
download_file(m) ==
    /\ merge[m].pc = "download"
    /\ LET rec == [merge[m] EXCEPT !.downloads = @ + 1] IN
       \/ Set(m, [rec EXCEPT !.local_files = Append(@, rec.downloads),
                             !.pc = IF rec.downloads = rec.n THEN "repair"
                                    ELSE "download"])
       \/ Set(m, Leave(Notified(rec, "FAIL"), "done"))
    /\ UNCHANGED <<ext, gvars>>

\* A repair loop that drops a clip it cannot repair and goes on.
repair_skip(m) ==
    /\ merge[m].pc = "repair"
    /\ LET rec == [merge[m] EXCEPT !.repairs = @ + 1] IN
       \/ Set(m, [rec EXCEPT !.fixed_files = Append(@, rec.local_files[rec.repairs]),
                             !.pc = IF rec.repairs = Len(rec.local_files) THEN "combine"
                                    ELSE "repair"])
       \/ Set(m, [rec EXCEPT !.pc = IF rec.repairs = Len(rec.local_files) THEN "combine"
                                    ELSE "repair"])
       \/ Set(m, Leave(rec, "dead"))
    /\ UNCHANGED <<ext, gvars>>

\* for p in local_files: ffmpeg ... -movflags +faststart: return code 0 keeps
\* the clip; any other ends the merge with _notify("", "FAIL"); a
\* TimeoutExpired or a missing ffmpeg raises out of the thread.
repair(m) ==
    /\ merge[m].pc = "repair"
    /\ LET rec == [merge[m] EXCEPT !.repairs = @ + 1] IN
       \/ Set(m, [rec EXCEPT !.fixed_files = Append(@, rec.local_files[rec.repairs]),
                             !.pc = IF rec.repairs = Len(rec.local_files) THEN "combine"
                                    ELSE "repair"])
       \/ Set(m, Leave(Notified(rec, "FAIL"), "done"))
       \/ Set(m, Leave(rec, "dead"))
    /\ UNCHANGED <<ext, gvars>>

\* A concat manifest written from a directory listing in arbitrary (here:
\* reverse) order instead of from the list.
combine_listing(m) ==
    /\ merge[m].pc = "combine"
    /\ LET rec == merge[m]
           lines == [i \in 1..Len(rec.fixed_files) |->
                        rec.fixed_files[Len(rec.fixed_files) + 1 - i]] IN
       \/ /\ Len(rec.local_files) = 1
          /\ Set(m, Leave([rec EXCEPT !.combined = "copy",
                                      !.output = <<rec.fixed_files[1]>>], "creds"))
       \/ /\ Len(rec.local_files) # 1
          /\ \/ Set(m, Leave([rec EXCEPT !.combined = "concat", !.manifest = lines,
                                         !.output = lines], "creds"))
             \/ Set(m, Leave(Notified([rec EXCEPT !.combined = "concat_fail",
                                                  !.manifest = lines], "FAIL"),
                             "done"))
       \/ Set(m, Leave(rec, "dead"))
    /\ UNCHANGED <<ext, gvars>>

\* len(local_files) == 1: shutil.copy(fixed_files[0], out_path).  Otherwise
\* concat.txt gets one line per element of fixed_files, in list order, and
\* ffmpeg -f concat -c copy writes out_path from it; a non-zero return code
\* ends the merge with _notify("", "FAIL"); an exception (of the copy, of the
\* manifest write or of the run) raises out of the thread.
combine(m) ==
    /\ merge[m].pc = "combine"
    /\ LET rec == merge[m]
           lines == rec.fixed_files IN
       \/ /\ Len(rec.local_files) = 1
          /\ Set(m, Leave([rec EXCEPT !.combined = "copy",
                                      !.output = <<rec.fixed_files[1]>>], "creds"))
       \/ /\ Len(rec.local_files) # 1
          /\ \/ Set(m, Leave([rec EXCEPT !.combined = "concat", !.manifest = lines,
                                         !.output = lines], "creds"))
             \/ Set(m, Leave(Notified([rec EXCEPT !.combined = "concat_fail",
                                                  !.manifest = lines], "FAIL"),
                             "done"))
       \/ Set(m, Leave(rec, "dead"))
    /\ UNCHANGED <<ext, gvars>>

\* if secret_id and secret_key and bucket_name: the client is built (an
\* exception of the import or the constructors is caught at line 163);
\* else the upload is skipped.  oss_url is "" on both ways around the upload.
cos_client(m) ==
    /\ merge[m].pc = "creds"
    /\ \/ Set(m, [merge[m] EXCEPT !.creds = "absent", !.pc = "notifylog"])
       \/ Set(m, [merge[m] EXCEPT !.creds = "present", !.pc = "upload"])
       \/ Set(m, [merge[m] EXCEPT !.creds = "present", !.pc = "notifylog"])
    /\ UNCHANGED <<ext, gvars>>

\* An upload loop without retry: the first failure is final.
upload_file_once(m) ==
    /\ merge[m].pc = "upload"
    /\ LET rec == [merge[m] EXCEPT !.attempts = @ + 1] IN
       \/ Set(m, [rec EXCEPT !.oss_url = TRUE, !.pc = "urllog"])
       \/ Set(m, [rec EXCEPT !.upload_errs = @ + 1, !.pc = "notifylog"])
    /\ UNCHANGED <<ext, gvars>>

\* An upload loop that reports a URL although the last attempt failed.
upload_file_careless(m) ==
    /\ merge[m].pc = "upload"
    /\ LET rec == [merge[m] EXCEPT !.attempts = @ + 1] IN
       \/ Set(m, [rec EXCEPT !.oss_url = TRUE, !.pc = "urllog"])
       \/ /\ rec.attempts < max_retries
          /\ Set(m, [rec EXCEPT !.upload_errs = @ + 1,
                                !.slept = Append(@, wait_unit * rec.attempts)])
       \/ /\ rec.attempts = max_retries
          /\ Set(m, [rec EXCEPT !.upload_errs = @ + 1, !.oss_url = TRUE, !.pc = "urllog"])
    /\ UNCHANGED <<ext, gvars>>

\* for attempt in range(max_retries): client.upload_file(...); break on
\* success; on an exception time.sleep(5 * (attempt + 1)) and the next attempt,
\* but the exception of the last attempt is raised (and caught at line 163,
\* oss_url stays "").
upload_file(m) ==
    /\ merge[m].pc = "upload"
    /\ LET rec == [merge[m] EXCEPT !.attempts = @ + 1] IN
       \/ Set(m, [rec EXCEPT !.oss_url = TRUE, !.pc = "urllog"])
       \/ /\ rec.attempts < max_retries
          /\ Set(m, [rec EXCEPT !.upload_errs = @ + 1,
                                !.slept = Append(@, wait_unit * rec.attempts)])
       \/ /\ rec.attempts = max_retries
          /\ Set(m, [rec EXCEPT !.upload_errs = @ + 1, !.pc = "notifylog"])
    /\ UNCHANGED <<ext, gvars>>

\* if oss_url and OSS_URL_LOG: one line is appended; an exception of the
\* append is caught and logged.
write_oss_url_log(m) ==
    /\ merge[m].pc = "urllog"
    /\ \/ Set(m, [merge[m] EXCEPT !.url_logged = @ + 1, !.pc = "notifylog"])
       \/ Set(m, [merge[m] EXCEPT !.pc = "notifylog"])
    /\ UNCHANGED <<ext, gvars>>

\* Path(NOTIFY_LOG).parent.mkdir; open(NOTIFY_LOG, 'a'); f.write: outside
\* any try, an exception raises out of the thread.
write_notify_log(m) ==
    /\ merge[m].pc = "notifylog"
    /\ \/ Set(m, [merge[m] EXCEPT !.pc = "notify"])
       \/ Set(m, [merge[m] EXCEPT !.pc = "dead"])
    /\ UNCHANGED <<ext, gvars>>

\* _notify(oss_url or "", "SUCCESS" if oss_url else "FAIL")
merge_notify(m) ==
    /\ merge[m].pc = "notify"
    /\ Set(m, [Notified(merge[m], IF merge[m].oss_url THEN "SUCCESS" ELSE "FAIL")
                 EXCEPT !.pc = "done"])
    /\ UNCHANGED <<ext, gvars>>

\* ------------------------------------------------------------------ Next
Next ==
    \/ \E r \in Requests, t \in TaskIds : create_video(r, t)
    \/ \E r \in Requests : persist_append_acquire(r)
    \/ \E r \in Requests : persist_append_write(r)
    \/ \E r \in Requests : persist_append_fail(r)
    \/ \E r \in Requests : queue_put(r)
    \/ \E w \in Workers : worker_get(w)
    \/ \E w \in Workers : get_ssh_client(w)
    \/ \E w \in Workers : issue_command(w)
    \/ \E w \in Workers : wait_exit(w)
    \/ \E w \in Workers : check_mp4_exists(w)
    \/ \E w \in Workers : fetch_artifact(w)
    \/ \E w \in Workers : upload_video_to_cos_and_log(w)
    \/ \E w \in Workers : write_failed_log(w)
    \/ \E w \in Workers : call_notify(w)
    \/ \E w \in Workers : persist_remove_acquire(w)
    \/ \E w \in Workers : persist_remove_truncate(w)
    \/ \E w \in Workers : persist_remove_write(w)
    \/ \E w \in Workers : persist_remove_fail(w)
    \/ session_drop
    \/ Crash
    \/ Restart

Spec == Init /\ [][Next]_vars

\* ------------------------------------------------------ no crash
\* The service between two restarts: submissions and the worker.
RunNext ==
    \/ \E r \in Requests, t \in TaskIds : create_video(r, t)
    \/ \E r \in Requests : persist_append_acquire(r)
    \/ \E r \in Requests : persist_append_write(r)
    \/ \E r \in Requests : persist_append_fail(r)
    \/ \E r \in Requests : queue_put(r)
    \/ \E w \in Workers : worker_get(w)
    \/ \E w \in Workers : get_ssh_client(w)
    \/ \E w \in Workers : issue_command(w)
    \/ \E w \in Workers : wait_exit(w)
    \/ \E w \in Workers : check_mp4_exists(w)
    \/ \E w \in Workers : fetch_artifact(w)
    \/ \E w \in Workers : upload_video_to_cos_and_log(w)
    \/ \E w \in Workers : write_failed_log(w)
    \/ \E w \in Workers : call_notify(w)
    \/ \E w \in Workers : persist_remove_acquire(w)
    \/ \E w \in Workers : persist_remove_truncate(w)
    \/ \E w \in Workers : persist_remove_write(w)
    \/ \E w \in Workers : persist_remove_fail(w)
    \/ session_drop

RunSpec == Init /\ [][RunNext]_vars

\* --------------------------------------------------------- fair schedule
\* One more step of the request r inside create_video, of the worker thread w.
RequestStep(r) ==
    \/ persist_append_acquire(r)
    \/ persist_append_write(r)
    \/ persist_append_fail(r)
    \/ queue_put(r)

WorkerStep(w) ==
    \/ worker_get(w)
    \/ get_ssh_client(w)
    \/ issue_command(w)
    \/ wait_exit(w)
    \/ check_mp4_exists(w)
    \/ fetch_artifact(w)
    \/ upload_video_to_cos_and_log(w)
    \/ write_failed_log(w)
    \/ call_notify(w)
    \/ persist_remove_acquire(w)
    \/ persist_remove_truncate(w)
    \/ persist_remove_write(w)
    \/ persist_remove_fail(w)

\* No crash; every thread that can take a step eventually takes one: calls
\* return (commands end or time out after 7200 s), Lock and Queue wake their
\* waiters.
FairSpec ==
    /\ Init /\ [][RunNext]_vars
    /\ \A r \in Requests : WF_vars(RequestStep(r))
    /\ \A w \in Workers : WF_vars(WorkerStep(w))

\* ------------------------------------------------------------ shutdown
\* The same with the sentinel put on the queue at some point.
ShutdownNext ==
    \/ RunNext
    \/ put_sentinel
    \/ \E w \in Workers : worker_stop(w)

ShutdownSpec == Init /\ [][ShutdownNext]_vars

\* ------------------------------------------------------------ merge only
\* The merge pipeline on its own: it shares no state with the generation
\* side, which stays as the import left it.
MergeInit == Init /\ ~useRemote /\ ~notifyUrl

MergeNext ==
    \/ \E m \in Merges, k \in 1..MaxSources, nu \in BOOLEAN : merge_videos(m, k, nu)
    \/ \E m \in Merges : download_file(m)
    \/ \E m \in Merges : repair(m)
    \/ \E m \in Merges : combine(m)
    \/ \E m \in Merges : cos_client(m)
    \/ \E m \in Merges : upload_file(m)
    \/ \E m \in Merges : write_oss_url_log(m)
    \/ \E m \in Merges : write_notify_log(m)
    \/ \E m \in Merges : merge_notify(m)

MergeSpec == MergeInit /\ [][MergeNext]_vars

\* ------------------------------------------------------- both pipelines
\* One generation task, from its submission to the removal of its record, and
\* one merge request side by side, without a crash.
First == {1}

PipelineNext ==
    \/ \E r \in First, t \in First : create_video(r, t)
    \/ \E r \in First : persist_append_acquire(r)
    \/ \E r \in First : persist_append_write(r)
    \/ \E r \in First : persist_append_fail(r)
    \/ \E r \in First : queue_put(r)
    \/ \E w \in Workers : worker_get(w)
    \/ \E w \in Workers : get_ssh_client(w)
    \/ \E w \in Workers : issue_command(w)
    \/ \E w \in Workers : wait_exit(w)
    \/ \E w \in Workers : check_mp4_exists(w)
    \/ \E w \in Workers : fetch_artifact(w)
    \/ \E w \in Workers : upload_video_to_cos_and_log(w)
    \/ \E w \in Workers : write_failed_log(w)
    \/ \E w \in Workers : call_notify(w)
    \/ \E w \in Workers : persist_remove_acquire(w)
    \/ \E w \in Workers : persist_remove_truncate(w)
    \/ \E w \in Workers : persist_remove_write(w)
    \/ \E w \in Workers : persist_remove_fail(w)
    \/ \E m \in First, k \in 1..MaxSources, nu \in BOOLEAN : merge_videos(m, k, nu)
    \/ \E m \in First : download_file(m)
    \/ \E m \in First : repair(m)
    \/ \E m \in First : combine(m)
    \/ \E m \in First : cos_client(m)
    \/ \E m \in First : upload_file(m)
    \/ \E m \in First : write_oss_url_log(m)
    \/ \E m \in First : write_notify_log(m)
    \/ \E m \in First : merge_notify(m)

PipelineSpec == Init /\ [][PipelineNext]_vars

\* ------------------------------------------- merges next to generation
\* Two merge requests and one generation task in local mode with the
\* callbacks configured, without a crash.
Pair == {1, 2}

ConcurrentInit == Init /\ ~useRemote /\ notifyUrl

ConcurrentNext ==
    \/ \E r \in First, t \in First : create_video(r, t)
    \/ \E r \in First : persist_append_acquire(r)
    \/ \E r \in First : persist_append_write(r)
    \/ \E r \in First : persist_append_fail(r)
    \/ \E r \in First : queue_put(r)
    \/ \E w \in Workers : worker_get(w)
    \/ \E w \in Workers : issue_command(w)
    \/ \E w \in Workers : wait_exit(w)
    \/ \E w \in Workers : check_mp4_exists(w)
    \/ \E w \in Workers : fetch_artifact(w)
    \/ \E w \in Workers : upload_video_to_cos_and_log(w)
    \/ \E w \in Workers : write_failed_log(w)
    \/ \E w \in Workers : call_notify(w)
    \/ \E w \in Workers : persist_remove_acquire(w)
    \/ \E w \in Workers : persist_remove_truncate(w)
    \/ \E w \in Workers : persist_remove_write(w)
    \/ \E w \in Workers : persist_remove_fail(w)
    \/ \E m \in Pair, k \in 1..MaxSources : merge_videos(m, k, TRUE)
    \/ \E m \in Pair : download_file(m)
    \/ \E m \in Pair : repair(m)
    \/ \E m \in Pair : combine(m)
    \/ \E m \in Pair : cos_client(m)
    \/ \E m \in Pair : upload_file(m)
    \/ \E m \in Pair : write_oss_url_log(m)
    \/ \E m \in Pair : write_notify_log(m)
    \/ \E m \in Pair : merge_notify(m)

ConcurrentSpec == ConcurrentInit /\ [][ConcurrentNext]_vars

\* -------------------------------------------------------- command text
\* The Command Builder applied to the requests of the bounded strings.
CommandNext ==
    \/ \E tid \in Strings, tt \in {"reference_to_video", "single_shot_extension"},
          pr \in Strings, loc \in Strings : post(tid, tt, pr, loc)
    \/ \E w \in Workers : build_command(w)

CommandInit == Init /\ ~useRemote /\ ~notifyUrl

CommandSpec == CommandInit /\ [][CommandNext]_vars

\* ================================================================ claims
Range(s) == {s[i] : i \in 1..Len(s)}

\* The task ids with a parseable record in the log file f, read off the lines.
FileIds(f) == {f[i] : i \in {j \in 1..Len(f) : f[j] \in TaskIds}}

\* The task ids of the parseable lines of f, first line first.
RECURSIVE RecordsInOrder(_)
RecordsInOrder(f) ==
    IF f = <<>> THEN <<>>
    ELSE (IF Head(f) \in TaskIds THEN <<Head(f)>> ELSE <<>>) \o RecordsInOrder(Tail(f))

\* Every create_video call so far carried its own task id.
Distinct == \A t \in TaskIds : Cardinality(Subs(t)) <= 1

\* No create_video call is under way.
NoRequestInFlight == \A r \in Requests : rpc[r] \notin {"acquire", "write", "put"}

\* C1: at no instant are two workers inside _run_via_ssh_sync / _run_local_sync:
\* the invocation for one task never overlaps the invocation for another.
C1_NoOverlap == Cardinality({w \in Workers : pc[w] \in RunPcs}) <= 1

\* A command is executing while another task waits in the queue.
C1_Witness == \E w \in Workers : pc[w] = "exec" /\ queue # <<>>

\* C2: with distinct task ids, every task waiting in the queue or being
\* processed by the worker has a record in the Durable Log.
C2_LogCoversOutstanding ==
    Distinct =>
        \A t \in Range(queue) \cup {cur[w] : w \in {v \in Workers : pc[v] \in ProcessingPcs}} :
            t \in FileIds(file)

\* C3: a crash at any point loses no work: when the process dies, every task
\* whose submission was acknowledged and whose processing has not finished
\* still has its record in the Durable Log.
C3_CrashLosesNoWork ==
    [][(up /\ ~up' /\ Distinct) =>
        \A r \in Requests :
            (/\ rpc[r] = "ok"
             /\ rid[r] \notin removed
             /\ \A w \in Workers : ~(pc[w] \in RemovePcs /\ cur[w] = rid[r]))
            => rid[r] \in FileIds(file')]_vars

\* C4: on restart the queue is rebuilt with every record of the log, in file
\* order, before the worker has taken anything; the worker then takes the
\* recovered tasks in that order, ahead of anything submitted later.
C4_RestartReenqueuesInOrder ==
    /\ [][(~up /\ up') =>
            /\ queue' = RecordsInOrder(file)
            /\ attempted' = <<>>
            /\ \A w \in Workers : pc'[w] = "get"]_vars
    /\ [](\A i \in 1..Len(attempted) :
            i <= Len(recovered) => attempted[i] = recovered[i])

\* After a restart that found two records, the second of them is executing.
C4_Witness ==
    /\ crashes = 1 /\ Len(recovered) = 2 /\ attempted = recovered
    /\ recovered[1] # recovered[2]
    /\ \E w \in Workers : pc[w] = "exec" /\ cur[w] = recovered[2]

\* C5: a task that was being processed when the process crashed and whose
\* record is still in the log is enqueued again by the restart (and run again
\* from the start); with distinct ids, a task whose removal from the log
\* completed is never processed again.
C5_AtLeastOnce ==
    /\ [][(~up /\ up') =>
            \A t \in interrupted : t \in FileIds(file) => t \in Range(queue')]_vars
    /\ [](Distinct =>
            \A w \in Workers : pc[w] \in ProcessingPcs => cur[w] \notin removed)

\* The task interrupted by the crash is executing for the second time.
C5_Witness ==
    \E w \in Workers :
        /\ crashes = 1 /\ pc[w] = "exec" /\ cur[w] \in interrupted
        /\ issued[w] = 1

\* C6: with distinct ids, every task the worker has dequeued and finished with
\* (it is no longer the task a worker holds in processing or in the removal)
\* has no record in the Durable Log, whatever its outcome was.
C6_FinishedTasksAbsent ==
    Distinct =>
        /\ \A w \in Workers :
              (pc[w] = "get" /\ cur[w] # 0) => cur[w] \notin FileIds(file)
        /\ \A i \in 1..Len(attempted) :
              \/ \E w \in Workers : cur[w] = attempted[i] /\ pc[w] # "get"
              \/ attempted[i] \notin FileIds(file)

\* The worker is done with a task that ended in a connection error, another
\* task is still recorded.
C6_Witness ==
    \E w \in Workers :
        /\ pc[w] = "get" /\ cur[w] # 0 /\ outcome[w] = "conn_error"
        /\ FileIds(file) # {}

\* C7: no error raised while a task is processed terminates the worker loop.
C7_WorkerLoopSurvives == \A w \in Workers : pc[w] # "dead"

\* C8: with distinct ids and no restart, the worker hands every accepted task
\* to the backend (_run_via_ssh_sync / _run_local_sync) exactly once: no task
\* is dequeued twice, only accepted tasks are dequeued, a command is never
\* issued a second time for the task in hand, and once the queue is drained
\* the tasks handed over are exactly the accepted ones, none skipped.
C8_ExactlyOneInvocationEach ==
    (Distinct /\ crashes = 0) =>
        /\ \A i, j \in 1..Len(attempted) : attempted[i] = attempted[j] => i = j
        /\ \A i \in 1..Len(attempted) : Acked(attempted[i]) # {}
        /\ \A w \in Workers : issued[w] <= 1
        /\ (/\ NoRequestInFlight /\ queue = <<>>
            /\ \A w \in Workers : pc[w] = "get")
           => /\ \A r \in Requests : rpc[r] = "ok" => rid[r] \in Range(attempted)
              /\ Len(attempted) = Cardinality({r \in Requests : rpc[r] = "ok"})

\* Two accepted tasks are done without a restart; the last one failed with a
\* non-zero exit and was not issued again.
C8_Witness ==
    /\ crashes = 0 /\ Distinct /\ NoRequestInFlight /\ queue = <<>>
    /\ \A r \in Requests : rpc[r] = "ok"
    /\ Len(attempted) = MaxSubmits
    /\ \A w \in Workers : pc[w] = "get" /\ outcome[w] = "exit_nonzero" /\ issued[w] = 1

\* C9: the execution of a task does not begin while the record of a task
\* dequeued before it is still in the Durable Log, and when the worker is done
\* with a task (the next one not yet taken) the record of that task is removed
\* and, a callback URL being configured, its notification has been attempted.
C9_PreviousFullyCompleted ==
    Distinct =>
        \A w \in Workers :
            /\ pc[w] = "exec" =>
                  \A i \in 1..Len(attempted) :
                      attempted[i] # cur[w] => attempted[i] \notin FileIds(file)
            /\ (pc[w] = "get" /\ cur[w] # 0) =>
                  /\ cur[w] \notin FileIds(file)
                  /\ notifyUrl => noted[w] # <<>>

\* C10: when the remote session could not be established for a task and a
\* callback URL is configured, a FAIL notification has been posted for the task
\* by the time the worker removes its record.
C10_ConnFailureNotified ==
    \A w \in Workers :
        (/\ pc[w] \in RemovePcs /\ outcome[w] = "conn_error" /\ notifyUrl)
        => \E i \in 1..Len(noted[w]) : noted[w][i].status = "FAIL"

\* The worker has left _run_via_ssh_sync / _run_local_sync for the task in hand.
AfterRunPcs == RemovePcs \cup {"get", "dead"}

\* C11: when the command exited 0 and {task_id}.mp4 is absent from the result
\* directory, the task is classified as failed: _write_failed_log is called,
\* neither the fetch nor the upload is entered, no URL is produced, and the
\* one notification posted (a callback URL being configured) is FAIL with an
\* empty video URL.
C11_MissingArtifactFails ==
    \A w \in Workers : mp4[w] = "absent" =>
        /\ pc[w] \notin {"fetch", "upload"}
        /\ uploads[w] = 0 /\ ~url[w]
        /\ pc[w] \in {"notify"} \cup AfterRunPcs => (outcome[w] = "missing" /\ wrote[w])
        /\ pc[w] \in AfterRunPcs =>
              noted[w] = (IF notifyUrl THEN <<Post("FAIL", FALSE)>> ELSE <<>>)

\* The record of a task whose artifact was missing is being removed after its
\* FAIL notification.
C11_Witness ==
    \E w \in Workers :
        /\ mp4[w] = "absent" /\ pc[w] = "rm_write"
        /\ noted[w] = <<Post("FAIL", FALSE)>>

\* C12: a command that exceeds its timeout ends the execution call: the worker
\* is in the except clause or past it, never back inside the run; the task
\* counts as failed (_write_failed_log called, no URL, no SUCCESS post); and
\* once the record is removed the worker is ready to take the next task.
C12_TimeoutEndsCall ==
    \A w \in Workers : outcome[w] = "timeout" =>
        /\ pc[w] \in {"except"} \cup AfterRunPcs
        /\ ~url[w] /\ uploads[w] = 0 /\ noted[w] = <<>>
        /\ pc[w] \in AfterRunPcs => wrote[w]
        /\ (pc[w] = "get" /\ Distinct) => cur[w] \notin FileIds(file)
        /\ (pc[w] = "get" /\ up /\ queue # <<>>) => ENABLED worker_get(w)

\* The task that timed out is finished and removed, the next one is waiting.
C12_Witness ==
    \E w \in Workers :
        /\ outcome[w] = "timeout" /\ pc[w] = "get" /\ up
        /\ queue # <<>> /\ cur[w] \notin FileIds(file)

\* C13: create_video never waits for the execution of a task: the worker
\* holds _persist_lock only inside _persist_remove, and every step of a
\* submission is possible as soon as no other thread is inside the log's
\* critical section, whatever the worker is executing.
C13_SubmitDoesNotWaitForExecution ==
    /\ \A w \in Workers : lock = <<"worker", w>> <=> pc[w] \in {"rm_read", "rm_write"}
    /\ \A r \in Requests : up =>
          /\ (rpc[r] = "acquire" /\ lock = Free) => ENABLED persist_append_acquire(r)
          /\ rpc[r] = "write" => ENABLED persist_append_write(r)
          /\ rpc[r] = "put" => ENABLED queue_put(r)

\* A submission has persisted its task and can push it and return while the
\* worker is waiting for another task's command to finish.
C13_Witness ==
    \E r \in Requests, w \in Workers :
        /\ rpc[r] = "put" /\ pc[w] = "exec" /\ cur[w] # rid[r]
        /\ ENABLED queue_put(r)

\* The merge thread m has run to its end, normally or by an exception.
MergeEnded(m) == merge[m].pc \in {"done", "dead"}

\* C14: when a source of a merge fails to download, the merge ends there: no
\* later source is downloaded, nothing is repaired, combined or uploaded, no
\* output is written, the temporary directory is gone, and the one
\* notification posted (a merge callback URL being configured) is FAIL with an
\* empty video URL.
C14_DownloadFailFast ==
    \A m \in Merges :
        LET rec == merge[m] IN
        rec.downloads > Len(rec.local_files) =>
            /\ rec.pc = "done" /\ ~rec.tmpdir
            /\ rec.downloads = Len(rec.local_files) + 1
            /\ rec.repairs = 0 /\ rec.combined = "none"
            /\ rec.creds = "unread" /\ rec.attempts = 0 /\ ~rec.oss_url
            /\ rec.posts = (IF rec.notify_url THEN <<Post("FAIL", FALSE)>> ELSE <<>>)

\* The second of two sources failed to download and FAIL was posted.
C14_Witness ==
    \E m \in Merges :
        /\ merge[m].n = 2 /\ Len(merge[m].local_files) = 1 /\ merge[m].downloads = 2
        /\ merge[m].posts = <<Post("FAIL", FALSE)>>

\* C15: when the repair of a clip returns a failure, the merge is aborted: no
\* further clip is repaired, nothing is copied or concatenated to the output
\* path, no upload is attempted, and if the repair returned (rather than
\* raised) the one notification posted (a merge callback URL being
\* configured) is FAIL with an empty video URL.
C15_RepairFailureAborts ==
    \A m \in Merges :
        LET rec == merge[m] IN
        rec.repairs > Len(rec.fixed_files) =>
            /\ MergeEnded(m) /\ ~rec.tmpdir
            /\ rec.repairs = Len(rec.fixed_files) + 1
            /\ rec.combined = "none"
            /\ rec.creds = "unread" /\ rec.attempts = 0 /\ ~rec.oss_url
            /\ rec.pc = "done" =>
                  rec.posts = (IF rec.notify_url THEN <<Post("FAIL", FALSE)>> ELSE <<>>)

\* The second of two clips could not be repaired and FAIL was posted.
C15_Witness ==
    \E m \in Merges :
        /\ merge[m].n = 2 /\ Len(merge[m].fixed_files) = 1 /\ merge[m].repairs = 2
        /\ merge[m].pc = "done" /\ merge[m].posts = <<Post("FAIL", FALSE)>>

\* C16: the merge upload is attempted at most 3 times and stops at the first
\* success; it waits 5 s after the first failure and 10 s after the second
\* and gives up only after the third; the URL is appended to the URL log at
\* most once and only after the upload succeeded (hence after the waits); and
\* a merge that produced a URL posts SUCCESS.
C16_UploadRetryBackoff ==
    \A m \in Merges :
        LET rec == merge[m]
            waited == IF rec.upload_errs < 2 THEN rec.upload_errs ELSE 2 IN
        /\ rec.attempts <= 3
        /\ rec.attempts = rec.upload_errs + (IF rec.oss_url THEN 1 ELSE 0)
        /\ rec.slept = SubSeq(<<5, 10>>, 1, waited)
        /\ rec.pc = "upload" => (~rec.oss_url /\ rec.upload_errs < 3)
        /\ (rec.pc # "upload" /\ rec.upload_errs > 0 /\ ~rec.oss_url) => rec.upload_errs = 3
        /\ rec.url_logged <= 1
        /\ rec.url_logged = 1 => rec.oss_url
        /\ (rec.pc = "done" /\ rec.oss_url) =>
              rec.posts = (IF rec.notify_url THEN <<Post("SUCCESS", TRUE)>> ELSE <<>>)

\* The upload failed twice and then succeeded: two waits, the URL logged once,
\* SUCCESS posted.
C16_Witness ==
    \E m \in Merges :
        /\ merge[m].upload_errs = 2 /\ merge[m].attempts = 3 /\ merge[m].oss_url
        /\ merge[m].slept = <<5, 10>> /\ merge[m].url_logged = 1
        /\ merge[m].posts = <<Post("SUCCESS", TRUE)>>

\* C17: when the upload of a generated video has failed and the delivery is
\* about to be reported, three upload attempts have been made.
C17_GenerationUploadRetried ==
    \A w \in Workers :
        (outcome[w] = "upload_fail" /\ pc[w] \in {"notify"} \cup AfterRunPcs)
        => uploads[w] = 3

\* C18: when the upload has failed for good (merge: three attempts raised;
\* generation: its attempt raised), no URL is produced, nothing is appended
\* to the URL log, the local output stays in place, and the one notification
\* posted (a callback URL being configured) is FAIL with an empty video URL.
C18_UploadFailureIsFail ==
    /\ \A m \in First :
          LET rec == merge[m] IN
          rec.upload_errs = max_retries =>
              /\ ~rec.oss_url /\ rec.url_logged = 0
              /\ rec.combined \in {"copy", "concat"}
              /\ rec.pc \in {"notifylog", "notify", "done", "dead"}
              /\ rec.pc = "done" =>
                    rec.posts = (IF rec.notify_url THEN <<Post("FAIL", FALSE)>> ELSE <<>>)
    /\ \A w \in Workers :
          outcome[w] = "upload_fail" =>
              /\ ~url[w] /\ mp4[w] = "present"
              /\ pc[w] \in {"notify"} \cup AfterRunPcs
              /\ pc[w] \in AfterRunPcs =>
                    noted[w] = (IF notifyUrl THEN <<Post("FAIL", FALSE)>> ELSE <<>>)

\* Both pipelines have reported FAIL after their uploads failed.
C18_Witness ==
    /\ \E m \in First :
          /\ merge[m].upload_errs = max_retries /\ merge[m].pc = "done"
          /\ merge[m].posts = <<Post("FAIL", FALSE)>>
    /\ \E w \in Workers :
          /\ outcome[w] = "upload_fail" /\ pc[w] \in RemovePcs
          /\ noted[w] = <<Post("FAIL", FALSE)>>

\* C19: with storage credentials absent no upload attempt is made in either
\* pipeline, although the local output was produced, and the one notification
\* posted (a callback URL being configured) is FAIL with an empty video URL.
C19_NoCredentialsNoUpload ==
    /\ \A m \in First :
          LET rec == merge[m] IN
          rec.creds = "absent" =>
              /\ rec.attempts = 0 /\ ~rec.oss_url /\ rec.url_logged = 0
              /\ rec.combined \in {"copy", "concat"}
              /\ rec.pc = "done" =>
                    rec.posts = (IF rec.notify_url THEN <<Post("FAIL", FALSE)>> ELSE <<>>)
    /\ \A w \in Workers :
          outcome[w] = "no_creds" =>
              /\ uploads[w] = 0 /\ ~url[w] /\ mp4[w] = "present"
              /\ pc[w] \in AfterRunPcs =>
                    noted[w] = (IF notifyUrl THEN <<Post("FAIL", FALSE)>> ELSE <<>>)

\* Both pipelines have reported FAIL without credentials.
C19_Witness ==
    /\ \E m \in First :
          /\ merge[m].creds = "absent" /\ merge[m].pc = "done"
          /\ merge[m].posts = <<Post("FAIL", FALSE)>>
    /\ \E w \in Workers :
          /\ outcome[w] = "no_creds" /\ pc[w] \in RemovePcs
          /\ noted[w] = <<Post("FAIL", FALSE)>>

\* C20: a notification is posted only when a callback URL is configured and
\* at most once for the task in hand; once it is posted the worker is in the
\* finally clause or past it, whatever the receiver answered, and the record
\* of the task is removed as for any other task.
C20_NotifierSingleShot ==
    \A w \in Workers :
        /\ ~notifyUrl => noted[w] = <<>>
        /\ Len(noted[w]) <= 1
        /\ noted[w] # <<>> => pc[w] \in AfterRunPcs
        /\ (noted[w] # <<>> /\ pc[w] = "get" /\ Distinct) => cur[w] \notin FileIds(file)
        /\ (noted[w] # <<>> /\ pc[w] = "get" /\ up /\ queue # <<>>) => ENABLED worker_get(w)

\* A notification was posted for the finished task, its record is gone and
\* the next task is waiting.
C20_Witness ==
    \E w \in Workers :
        /\ noted[w] # <<>> /\ pc[w] = "get" /\ up
        /\ cur[w] \notin FileIds(file) /\ queue # <<>>

\* The merge thread m is inside _merge_videos_sync.
MergeRunning(m) == merge[m].pc \notin {"idle", "done", "dead"}

\* C21: merges are not serialized against each other or against generation:
\* a merge request starts its thread whatever the other merge and the worker
\* are doing, every step of a running merge and of the worker depends on its
\* own position only, and no step of a merge changes the Durable Log, its
\* mutex or the generation queue.
C21_MergesNotSerialized ==
    /\ [](\A m \in Pair :
            /\ (merge[m].pc = "idle" /\ (m > 1 => merge[m - 1].pc # "idle"))
                  => ENABLED merge_videos(m, 1, TRUE)
            /\ merge[m].pc = "download" => ENABLED download_file(m)
            /\ merge[m].pc = "repair" => ENABLED repair(m)
            /\ merge[m].pc = "combine" => ENABLED combine(m)
            /\ merge[m].pc = "upload" => ENABLED upload_file(m)
            /\ merge[m].pc = "notify" => ENABLED merge_notify(m))
    /\ [](\A w \in Workers :
            /\ (pc[w] = "get" /\ queue # <<>>) => ENABLED worker_get(w)
            /\ pc[w] = "exec" => ENABLED wait_exit(w)
            /\ (pc[w] = "remove" /\ lock = Free) => ENABLED persist_remove_acquire(w))
    /\ [][merge' # merge => UNCHANGED <<lock, queue, file>>]_vars

\* Two merges are in progress, one downloading and one uploading, while the
\* worker waits for the command of a generation task.
C21_Witness ==
    /\ merge[1].pc = "upload" /\ merge[2].pc = "download"
    /\ \E w \in Workers : pc[w] = "exec"

\* How sh reads a text: the characters it takes outside quotes and unescaped
\* (bare), and whether a single quote is still open at the end.  Inside single
\* quotes every character is literal up to the next single quote; outside, a
\* backslash makes the next character literal.
RECURSIVE sh_scan(_, _, _)
sh_scan(t, mode, bare) ==
    IF t = <<>> THEN [bare |-> bare, open |-> mode = "quoted"]
    ELSE LET c == Head(t) IN
         CASE mode = "quoted" ->
                sh_scan(Tail(t), IF c = "'" THEN "plain" ELSE "quoted", bare)
           [] mode = "escaped" -> sh_scan(Tail(t), "plain", bare)
           [] OTHER ->
                IF c = "'" THEN sh_scan(Tail(t), "quoted", bare)
                ELSE IF c = "\\" THEN sh_scan(Tail(t), "escaped", bare)
                ELSE sh_scan(Tail(t), "plain", Append(bare, c))

\* C22: no caller-supplied value reaches the command text unescaped: in the
\* command built from a request the shell reads no character of the caller as
\* a metacharacter outside quotes, and every quote the builder opened is closed.
C22_NoUnescapedCallerValue ==
    cmd # <<>> =>
        LET r == sh_scan(cmd, "plain", <<>>) IN
        /\ ~r.open
        /\ \A c \in Chars : c \notin Range(r.bare)

\* The threads inside the file-access section of _persist_append / _persist_remove.
InAppend == {r \in Requests : rpc[r] = "write"}
InRemove == {w \in Workers : pc[w] \in {"rm_read", "rm_write"}}

\* C23: at no time are two threads inside the file-access sections of
\* _persist_append and _persist_remove together, and no appended record is
\* lost to a concurrent rewrite: the record of every submission whose append
\* has returned is in the file, or among the lines a rewrite in progress is
\* about to write back, unless it is the record of the task being removed or
\* of a task removed before.
C23_AppendRemoveExclusive ==
    /\ Cardinality(InAppend) + Cardinality(InRemove) <= 1
    /\ \A r \in Requests : rpc[r] \in {"put", "ok"} =>
          \/ rid[r] \in FileIds(file)
          \/ \E w \in Workers : pc[w] = "rm_write" /\ rid[r] \in Range(buf[w])
          \/ \E w \in Workers : pc[w] \in RemovePcs /\ cur[w] = rid[r]
          \/ rid[r] \in removed

\* A submission waits for the lock while the worker is between the truncation
\* and the write-back of _persist_remove for another task.
C23_Witness ==
    \E r \in Requests, w \in Workers :
        /\ rpc[r] = "acquire" /\ pc[w] = "rm_write" /\ cur[w] # rid[r]
        /\ ~ENABLED persist_append_acquire(r)

\* C24: in remote mode the worker goes on to issue the command only from a
\* health check that found the session active, or from a connect of that same
\* call that replaced an absent or inactive session; when the connect fails
\* no command is issued for the task, and the call of the next task cannot
\* reuse anything: it has to connect again.  In local mode no session is used.
C24_CommandOnLiveSession ==
    /\ [][\A w \in Workers :
            /\ (pc[w] = "connect" /\ pc'[w] = "issue") => ssh' = "session"
            /\ (pc[w] = "connect" /\ pc'[w] = "except") =>
                  (ssh # "session" /\ ssh' = "none" /\ issued'[w] = 0)
            /\ (pc[w] = "get" /\ pc'[w] # "get" /\ useRemote) => pc'[w] = "connect"]_vars
    /\ [](\A w \in Workers :
            /\ outcome[w] = "conn_error" =>
                  (issued[w] = 0 /\ pc[w] \in {"except"} \cup AfterRunPcs)
            /\ (useRemote /\ issued[w] > 0) => ssh # "none"
            /\ ~useRemote => ssh = "none")

\* Remote mode: the first task is done and removed, the call for the second
\* task passed _get_ssh_client (health check or connect) and its command is
\* running on the session.
C24_Witness ==
    \E w \in Workers :
        /\ useRemote /\ Len(attempted) = 2 /\ pc[w] = "exec" /\ ssh = "session"
        /\ \E r \in Requests : rpc[r] = "ok" /\ rid[r] \in removed

\* The positions of a merge thread inside the `with` block of the temporary
\* directory, and those after it.
InsideTmpPcs == {"download", "repair", "combine"}
AfterTmpPcs == {"creds", "upload", "urllog", "notifylog", "notify", "done", "dead"}

\* C25: the temporary directory of a merge exists while the thread downloads,
\* repairs and combines, and no longer exists once the thread has left that
\* block, however it left it: after a failed download, a failed repair, a
\* failed concatenation, an exception, or normally with the output written.
C25_TmpDirRemoved ==
    \A m \in Merges :
        /\ merge[m].pc \in InsideTmpPcs => merge[m].tmpdir
        /\ merge[m].pc \in AfterTmpPcs => ~merge[m].tmpdir

\* A merge whose repair run raised has ended with its directory removed.
C25_Witness ==
    \E m \in Merges :
        /\ merge[m].pc = "dead" /\ merge[m].repairs > Len(merge[m].fixed_files)
        /\ ~merge[m].tmpdir

\* The sources of a request of k locators, in request order.
Sources(k) == [i \in 1..k |-> i]

\* C26: the output is produced only after every clip was repaired; a merge of
\* one source copies the repaired clip to the output path and writes no
\* manifest and runs no concatenation; a merge of several sources runs the
\* concatenation over a manifest that names the repaired clips of all sources
\* in the order of the request, and the output is made of them in that order.
C26_CopyOrConcatInOrder ==
    \A m \in Merges :
        LET rec == merge[m] IN
        rec.combined # "none" =>
            /\ rec.fixed_files = Sources(rec.n)
            /\ rec.n = 1 =>
                  (rec.combined = "copy" /\ rec.manifest = <<>> /\ rec.output = <<1>>)
            /\ rec.n > 1 =>
                  /\ rec.combined \in {"concat", "concat_fail"}
                  /\ rec.manifest = Sources(rec.n)
                  /\ rec.output = (IF rec.combined = "concat" THEN Sources(rec.n) ELSE <<>>)

\* A merge of several sources has ended with an output concatenated from the
\* clips of all of them.
C26_Witness ==
    \E m \in Merges :
        /\ merge[m].n = MaxSources /\ merge[m].combined = "concat"
        /\ merge[m].output = Sources(MaxSources) /\ merge[m].pc = "done"

\* C27: the step in which the worker dequeues the sentinel takes only the
\* sentinel off the queue and changes nothing else: no command is issued, the
\* Durable Log and its lock are not touched, no record is removed; the worker
\* then stays out of the loop, nothing it does removes a record any more, and
\* (with distinct ids) every task still waiting in the queue has its record in
\* the Durable Log, where the next start's _persist_load finds it.
C27_SentinelStopsCleanly ==
    /\ [][\A w \in Workers :
            /\ (pc[w] # "stopped" /\ pc'[w] = "stopped") =>
                  /\ pc[w] = "get" /\ Head(queue) = None /\ queue' = Tail(queue)
                  /\ UNCHANGED <<file, lock, issued, removed, attempted, cur>>
            /\ pc[w] = "stopped" =>
                  /\ pc'[w] = "stopped"
                  /\ \A t \in FileIds(file) : t \in FileIds(file')]_vars
    /\ [](\A w \in Workers : (pc[w] = "stopped" /\ Distinct) =>
            \A t \in Range(queue) : t \in Range(persist_load(file)))

\* The worker has stopped at the sentinel; a task submitted behind it waits in
\* the queue and is recorded in the log.
C27_Witness ==
    \E w \in Workers :
        /\ pc[w] = "stopped" /\ queue # <<>> /\ Distinct
        /\ \A t \in Range(queue) : t \in FileIds(file)

\* The create_video calls made so far have all returned.
SubmissionsStopped == \A r \in Requests : rpc[r] \in {"idle", "ok", "failed"}

\* C28: every task accepted by create_video is eventually removed from the
\* Durable Log by the worker, and from some point on, whenever no submission
\* is under way, the queue and the log are empty.
C28_EveryAcceptedTaskCompletes ==
    /\ \A r \in Requests : (rpc[r] = "ok") ~> (rid[r] \in removed)
    /\ <>[](SubmissionsStopped => (queue = <<>> /\ file = <<>>))

\* C29: with distinct ids, whenever the log file is whole (no rewrite is
\* between its truncation and its write-back), the tasks waiting in the queue
\* are in the order of their records in the Durable Log.
C29_QueueOrderIsLogOrder ==
    (Distinct /\ \A w \in Workers : pc[w] # "rm_write") =>
        queue = SelectSeq(RecordsInOrder(file), LAMBDA t : t \in Range(queue))

\* The lines of f without the first record of task id t.
RECURSIVE RemoveFirst(_, _)
RemoveFirst(f, t) ==
    IF f = <<>> THEN <<>>
    ELSE IF Head(f) = t THEN Tail(f)
    ELSE <<Head(f)>> \o RemoveFirst(Tail(f), t)

\* C30: _persist_remove(task_id) for the finished task takes one record out
\* of the log, that of the finished submission: the lines it keeps and writes
\* back are all the other records, a record of another submission with the
\* same task id included, in their order.
C30_RemoveChangesOneRecord ==
    [][\A w \in Workers :
         /\ (pc[w] = "rm_read" /\ pc'[w] = "rm_write") =>
               buf'[w] = RemoveFirst(file, cur[w])
         /\ (pc[w] = "rm_write" /\ pc'[w] = "get") => file' = buf[w]]_vars

\* C31: in every notification posted by the generation worker or by a merge
\* thread the status is SUCCESS exactly when the video URL is non-empty; a
\* non-empty URL is posted only when the artifact was produced ({task_id}.mp4
\* present, out_path written by the copy or the concat) and an upload_file
\* call for it returned without raising.
C31_SuccessIffUrl ==
    /\ \A w \in Workers : \A i \in 1..Len(noted[w]) :
          /\ noted[w][i].status = "SUCCESS" <=> noted[w][i].url
          /\ noted[w][i].url =>
                /\ mp4[w] = "present"
                /\ uploads[w] >= 1
                /\ outcome[w] \in {"success", "success_unlogged"}
    /\ \A m \in MergeThreads : \A i \in 1..Len(merge[m].posts) :
          /\ merge[m].posts[i].status = "SUCCESS" <=> merge[m].posts[i].url
          /\ merge[m].posts[i].url =>
                /\ merge[m].combined \in {"copy", "concat"}
                /\ merge[m].output # <<>>
                /\ merge[m].attempts = merge[m].upload_errs + 1

\* The worker posted FAIL with an empty URL for an artifact that was produced
\* but whose upload raised, and a merge posted SUCCESS with its URL after an
\* upload that succeeded on a retry.
C31_Witness ==
    /\ \E w \in Workers :
          /\ noted[w] = <<Post("FAIL", FALSE)>>
          /\ mp4[w] = "present" /\ outcome[w] = "upload_fail"
    /\ \E m \in MergeThreads :
          /\ merge[m].posts = <<Post("SUCCESS", TRUE)>>
          /\ merge[m].upload_errs >= 1

\* C32: with a merge callback URL configured, every merge request that was
\* started and has ended, on whichever way (a return of _merge_videos_sync or
\* an exception raised out of it), has made exactly one notification attempt.
C32_EveryMergeNotifiedOnce ==
    \A m \in MergeThreads :
        (merge[m].notify_url /\ MergeEnded(m)) => Len(merge[m].posts) = 1

\* The task ids a rewrite of the log in progress has read and will write back.
Kept == UNION {Range(buf[w]) : w \in {v \in Workers : pc[v] = "rm_write"}}

\* C33: create_video returns success only from the step that puts the task on
\* the queue, after its record was appended to the Durable Log (with distinct
\* ids the record is then in the file, or among the lines a rewrite of the
\* file in progress writes back); the return of a failure changes
\* neither the file nor the queue; and, with distinct ids, a task whose
\* submission returned failure has no record, is not queued and is never
\* dequeued by the worker.
C33_SuccessOnlyAfterLogAndQueue ==
    /\ [](Distinct =>
            \A r \in Requests : rpc[r] = "failed" =>
                /\ rid[r] \notin FileIds(file)
                /\ rid[r] \notin Range(queue)
                /\ rid[r] \notin Range(attempted)
                /\ \A w \in Workers : pc[w] \in ProcessingPcs => cur[w] # rid[r])
    /\ [][\A r \in Requests :
            /\ (rpc[r] # "ok" /\ rpc'[r] = "ok") =>
                  /\ rpc[r] = "put"
                  /\ queue' = Append(queue, rid[r])
                  /\ Distinct => rid[r] \in FileIds(file') \cup Kept'
            /\ (rpc[r] # "failed" /\ rpc'[r] = "failed") =>
                  (file' = file /\ queue' = queue)]_vars

\* One submission was reported as failed; another one was accepted and is the
\* only task the worker has taken.
C33_Witness ==
    /\ Distinct
    /\ \E r, q \in Requests :
          /\ rpc[r] = "failed" /\ rpc[q] = "ok"
          /\ attempted = <<rid[q]>> /\ queue = <<>>
          /\ \A w \in Workers : pc[w] = "get"

====
